---- MODULE Spec2Model ----
(***************************************************************************)
(* preprocess_aria.py: discovery of MIDI files under a root directory,     *)
(* deduplication by the MD5 of the first CHUNK_SIZE bytes, join with the   *)
(* records of metadata.json, schema unification and table building.        *)
(*                                                                         *)
(* Byte strings are run-length encoded: a sequence of runs [b, n] (n bytes *)
(* of value b), so that files of 8192 bytes and more are small values.     *)
(* File names and record keys are sequences of one-character strings.      *)
(***************************************************************************)
EXTENDS Integers, Sequences, FiniteSets, TLC

VARIABLES
    base,           \* what base_directory is on disk: "missing", "file", "dir"
    token,          \* whether HF_TOKEN is set in the environment
    metadata_file,  \* metadata.json on disk: <<>> when absent, else <<mapping>>
    fs,             \* the files under base_directory: path -> [content, mode]
    pc,             \* the position of the single thread of control
    error,          \* the exception that ended main, "" while none
    metadata,       \* main's metadata (json.load's result)
    metadata_keys,  \* main's metadata_keys
    ext_i,          \* find_midi_files: index of the current ext in exts
    discovered,     \* paths find_midi_files has yielded, in order
    used_hashes,    \* deduplicate_files: the seen fingerprints
    hashed,         \* paths compute_hash was called on, in order
    yielded,        \* paths deduplicate_files has yielded, in order
    unique_q,       \* paths yielded by deduplicate_files, not yet taken by grab_metadata
    file_path,      \* grab_metadata: <<>> or <<the path it is working on>>
    key,            \* grab_metadata: the key of the path it is working on
    midi_bytes,     \* grab_metadata: <<>> or <<the bytes read>>
    fullReads,      \* paths whose read_bytes was called, in order
    joined_q,       \* song_metadata yielded by grab_metadata, not yet taken by row_generator
    row_q,          \* rows yielded by row_generator, not yet appended by the builder
    table,          \* the rows of the Dataset, in order
    rowSrc,         \* for each row of table, the path it was built from
    log,            \* the logging.warning / logging.error calls: [line, path]
    run,            \* 1 in the first run of the pipeline, 2 in a second one
    prev_table,     \* the table of the first run, once a second run has started
    prev_discovered \* the traversal order of the first run, likewise

vars == <<base, token, metadata_file, fs, pc, error, metadata, metadata_keys,
          ext_i, discovered, used_hashes, hashed, yielded, unique_q,
          file_path, key, midi_bytes, fullReads, joined_q, row_q, table,
          rowSrc, log, run, prev_table, prev_discovered>>

(***************************************************************************)
(* Bounds of the model.                                                    *)
(***************************************************************************)
\* At most this many files lie under the root directory.
MaxFiles == 2
\* The number of values a digest takes (2^128 for MD5).
DigestSpace == 256

(***************************************************************************)
(* Sequences and byte strings.                                             *)
(***************************************************************************)
Range(s) == {s[i] : i \in 1..Len(s)}

\* The number of bytes of a run-length encoded byte string.
RECURSIVE ByteLen(_)
ByteLen(bytes) ==
    IF bytes = <<>> THEN 0 ELSE Head(bytes).n + ByteLen(Tail(bytes))

\* f.read(n): the first n bytes, or all of them when there are fewer.
RECURSIVE ReadPrefix(_, _)
ReadPrefix(bytes, n) ==
    IF n = 0 \/ bytes = <<>> THEN <<>>
    ELSE IF Head(bytes).n <= n
         THEN <<Head(bytes)>> \o ReadPrefix(Tail(bytes), n - Head(bytes).n)
         ELSE <<[b |-> Head(bytes).b, n |-> n]>>

RECURSIVE ByteSum(_)
ByteSum(bytes) ==
    IF bytes = <<>> THEN 0
    ELSE Head(bytes).b * Head(bytes).n + ByteSum(Tail(bytes))

CHUNK_SIZE == 8192

\* hashlib.md5().update(bytes).hexdigest(): a fixed function of the bytes onto
\* a finite set of digests, hence not injective.
md5(bytes) == (ByteSum(bytes) + ByteLen(bytes)) % DigestSpace

(***************************************************************************)
(* The inputs the model draws from: paths, file contents, metadata.json.   *)
(***************************************************************************)
P_001a == [dir |-> <<>>, name |-> <<"0", "0", "1", "_", "a", ".", "m", "i", "d">>]
P_1b == [dir |-> <<"sub">>, name |-> <<"1", "_", "b", ".", "m", "i", "d", "i">>]
P_abcx == [dir |-> <<>>, name |-> <<"a", "b", "c", "_", "x", ".", "m", "i", "d">>]
P_0y == [dir |-> <<"sub">>, name |-> <<"0", "_", "y", ".", "m", "i", "d">>]
P_9 == [dir |-> <<>>, name |-> <<"9", ".", "m", "i", "d">>]
P_03w == [dir |-> <<>>, name |-> <<"0", "3", "_", "w", ".", "m", "i", "d">>]
P_txt == [dir |-> <<>>, name |-> <<"1", "_", "n", ".", "t", "x", "t">>]

Paths == {P_001a, P_1b, P_abcx, P_0y, P_9, P_03w, P_txt}

\* CHUNK_SIZE bytes of 1.
BytesA == <<[b |-> 1, n |-> CHUNK_SIZE]>>
\* The same first CHUNK_SIZE bytes, and one more byte after them.
BytesATail == <<[b |-> 1, n |-> CHUNK_SIZE], [b |-> 2, n |-> 1]>>
\* CHUNK_SIZE bytes that differ from BytesA in the last one.
BytesB == <<[b |-> 1, n |-> CHUNK_SIZE - 1], [b |-> 2, n |-> 1]>>
\* The bytes of BytesB in another order: another prefix, the same digest.
BytesC == <<[b |-> 2, n |-> 1], [b |-> 1, n |-> CHUNK_SIZE - 1]>>

\* mode "ok": open and read succeed; "noopen": open(file_path, 'rb') raises
\* (a directory named x.mid, no permission); "noread": the first bytes can be
\* read and reading the whole file raises (an I/O error further on).
Blobs == {[content |-> BytesA, mode |-> "ok"],
          [content |-> BytesATail, mode |-> "ok"],
          [content |-> BytesB, mode |-> "ok"],
          [content |-> BytesC, mode |-> "ok"],
          [content |-> BytesA, mode |-> "noopen"],
          [content |-> BytesB, mode |-> "noread"]}

Directories ==
    UNION {[S -> Blobs] : S \in {T \in SUBSET Paths : Cardinality(T) <= MaxFiles}}

K_1 == <<"1">>
K_abc == <<"a", "b", "c">>
K_3 == <<"3">>
K_7 == <<"7">>
K_empty == <<>>
K_5 == <<"5">>

\* A metadata.json whose records all have a "metadata" object; the record of
\* "3" has no "audio_scores", and no file has the key "7".
MetaGood ==
    [k \in {K_1, K_abc, K_3, K_7, K_empty} |->
        CASE k = K_1 -> [metadata |-> [title |-> "X"], audio_scores |-> <<9>>]
          [] k = K_abc -> [metadata |-> [title |-> "Y", genre |-> "G"],
                           audio_scores |-> <<8>>]
          [] k = K_3 -> [metadata |-> [title |-> "W"]]
          [] k = K_7 -> [metadata |-> [year |-> "1900"], audio_scores |-> <<>>]
          [] OTHER -> [metadata |-> [title |-> "E"], audio_scores |-> <<1>>]]

\* The same with one more record, which has no "metadata" object.
MetaNoMetadata ==
    [k \in DOMAIN MetaGood \cup {K_5} |->
        IF k = K_5 THEN [audio_scores |-> <<5>>] ELSE MetaGood[k]]

MetadataFiles == {<<>>, <<MetaGood>>, <<MetaNoMetadata>>}

(***************************************************************************)
(* The functions of preprocess_aria.py.                                    *)
(***************************************************************************)
exts == << <<".", "m", "i", "d">>, <<".", "m", "i", "d", "i">> >>

\* Whether name matches the glob pattern '*' + ext.
EndsWith(name, ext) ==
    /\ Len(name) >= Len(ext)
    /\ SubSeq(name, Len(name) - Len(ext) + 1, Len(name)) = ext

\* The paths Path(base_path).rglob('*' + exts[i]) yields, in an order the
\* file system chooses.
rglob(i) == {p \in DOMAIN fs : EndsWith(p.name, exts[i])}

\* compute_hash's result on an error.
NoHash == -1

\* compute_hash, were the whole file hashed.
compute_hash_full(path) ==
    IF fs[path].mode = "noopen" THEN NoHash ELSE md5(fs[path].content)

compute_hash(path) ==
    IF fs[path].mode = "noopen"
    THEN NoHash
    ELSE md5(ReadPrefix(fs[path].content, CHUNK_SIZE))

\* used_hashes, were it kept from one call of deduplicate_files to the next.
used_hashes_kept == used_hashes

\* used_hashes = set(), line 54
used_hashes_init == {}

basename(path) == path.name

\* name.split("_")[0]
RECURSIVE split_0(_)
split_0(name) ==
    IF name = <<>> \/ Head(name) = "_" THEN <<>>
    ELSE <<Head(name)>> \o split_0(Tail(name))

\* s.lstrip("0")
RECURSIVE lstrip_0(_)
lstrip_0(s) ==
    IF s # <<>> /\ Head(s) = "0" THEN lstrip_0(Tail(s)) ELSE s

\* The key, were the leading zeros kept.
record_key_unstripped(path) == split_0(basename(path))

\* line 66
record_key(path) == lstrip_0(split_0(basename(path)))

\* json.dumps(v): the text of v, a value of another type than v.
json_dumps(v) == [json |-> v]

\* Whether lines 83-85 raise for the record of key k.
merge_raises(k) ==
    \/ k \notin DOMAIN metadata
    \/ "metadata" \notin DOMAIN metadata[k]
    \/ "audio_scores" \notin DOMAIN metadata[k]

\* song_metadata after lines 83-85.
merged(k, bytes) ==
    LET m == metadata[k]["metadata"]
    IN  [a \in DOMAIN m \cup {"audio_scores", "file"} |->
            IF a = "file" THEN bytes
            ELSE IF a = "audio_scores" THEN json_dumps(metadata[k]["audio_scores"])
            ELSE m[a]]

\* Python's None.
None == "None"

\* The row, were song_metadata yielded as it is.
project_own_keys(song_metadata, keys) == song_metadata

\* {key: song_metadata.get(key, None) for key in metadata_keys}
project(song_metadata, keys) ==
    [a \in keys |-> IF a \in DOMAIN song_metadata THEN song_metadata[a] ELSE None]

\* keys after the loop of lines 130-132 over the records ks.
RECURSIVE nested_keys(_, _)
nested_keys(m, ks) ==
    IF ks = {} THEN {}
    ELSE LET k == CHOOSE x \in ks : TRUE
         IN  DOMAIN m[k]["metadata"] \cup nested_keys(m, ks \ {k})

(***************************************************************************)
(* main: the order of its steps.  The steps of the generators run while    *)
(* Dataset.from_generator iterates row_generator ("from_generator").       *)
(***************************************************************************)
\* The order of the steps, were login_to_hf called after the rows are generated.
main_next_login_last(step) ==
    CASE step = "check_exists" -> "check_isdir"
      [] step = "check_isdir" -> "load_metadata"
      [] step = "load_metadata" -> "compute_keys"
      [] step = "compute_keys" -> "from_generator"
      [] step = "from_generator" -> "login"
      [] step = "login" -> "save"
      [] step = "save" -> "push"
      [] OTHER -> "done"

\* main, lines 117-156
main_next(step) ==
    CASE step = "check_exists" -> "check_isdir"
      [] step = "check_isdir" -> "login"
      [] step = "login" -> "load_metadata"
      [] step = "load_metadata" -> "compute_keys"
      [] step = "compute_keys" -> "from_generator"
      [] step = "from_generator" -> "save"
      [] step = "save" -> "push"
      [] OTHER -> "done"

EmptyDir == [p \in {} |-> [content |-> <<>>, mode |-> "ok"]]

Last(s) == s[Len(s)]

Logged(line) == {log[i].path : i \in {j \in 1..Len(log) : log[j].line = line}}

Init ==
    /\ base \in {"missing", "file", "dir"}
    /\ token \in BOOLEAN
    /\ IF base = "dir"
       THEN fs \in Directories /\ metadata_file \in MetadataFiles
       ELSE fs = EmptyDir /\ metadata_file = <<>>
    /\ pc = "check_exists"
    /\ error = ""
    /\ metadata = <<>>
    /\ metadata_keys = {}
    /\ ext_i = 1
    /\ discovered = <<>>
    /\ used_hashes = {}
    /\ hashed = <<>>
    /\ yielded = <<>>
    /\ unique_q = <<>>
    /\ file_path = <<>>
    /\ key = <<>>
    /\ midi_bytes = <<>>
    /\ fullReads = <<>>
    /\ joined_q = <<>>
    /\ row_q = <<>>
    /\ table = <<>>
    /\ rowSrc = <<>>
    /\ log = <<>>
    /\ run = 1
    /\ prev_table = <<>>
    /\ prev_discovered = <<>>

env == <<base, token, metadata_file, fs, run, prev_table, prev_discovered>>
pipeline == <<ext_i, discovered, used_hashes, hashed, yielded, unique_q,
              file_path, key, midi_bytes, fullReads, joined_q, row_q, table,
              rowSrc, log>>

Raise(exception) ==
    /\ pc' = "aborted"
    /\ error' = exception

\* main, lines 117-118
CheckExists ==
    /\ pc = "check_exists"
    /\ IF base = "missing"
       THEN Raise("FileNotFoundError")
       ELSE pc' = main_next("check_exists") /\ error' = error
    /\ UNCHANGED <<env, pipeline, metadata, metadata_keys>>

\* main, lines 119-120
CheckIsDir ==
    /\ pc = "check_isdir"
    /\ IF base # "dir"
       THEN Raise("NotADirectoryError")
       ELSE pc' = main_next("check_isdir") /\ error' = error
    /\ UNCHANGED <<env, pipeline, metadata, metadata_keys>>

\* login_to_hf
Login ==
    /\ pc = "login"
    /\ IF ~token
       THEN Raise("ValueError")
       ELSE pc' = main_next("login") /\ error' = error
    /\ UNCHANGED <<env, pipeline, metadata, metadata_keys>>

\* main, lines 126-127
LoadMetadata ==
    /\ pc = "load_metadata"
    /\ IF metadata_file = <<>>
       THEN Raise("FileNotFoundError") /\ metadata' = metadata
       ELSE /\ metadata' = metadata_file[1]
            /\ pc' = main_next("load_metadata")
            /\ error' = error
    /\ UNCHANGED <<env, pipeline, metadata_keys>>

\* main, lines 130-135
ComputeKeys ==
    /\ pc = "compute_keys"
    /\ IF \E k \in DOMAIN metadata : "metadata" \notin DOMAIN metadata[k]
       THEN Raise("KeyError") /\ metadata_keys' = metadata_keys
       ELSE /\ metadata_keys' =
                nested_keys(metadata, DOMAIN metadata) \cup {"audio_scores", "file"}
            /\ pc' = main_next("compute_keys")
            /\ error' = error
    /\ UNCHANGED <<env, pipeline, metadata>>

\* Dataset.from_generator asks row_generator for its first row: the three
\* generators are created and deduplicate_files runs up to its loop.
FromGenerator ==
    /\ pc = "from_generator"
    /\ used_hashes' = used_hashes_init
    /\ ext_i' = 1
    /\ pc' = "discover"
    /\ UNCHANGED <<env, error, metadata, metadata_keys, discovered, hashed,
                   yielded, unique_q, file_path, key, midi_bytes, fullReads,
                   joined_q, row_q, table, rowSrc, log>>

(***************************************************************************)
(* The generators.  One thread runs them: a generator runs only from the   *)
(* moment its consumer asks for the next item up to its next yield.        *)
(***************************************************************************)
\* find_midi_files is asked for its next path (by deduplicate_files, line 55):
\* the next path of the current ext, else the first of a later ext, else it
\* returns, which ends deduplicate_files, grab_metadata and row_generator too.
Discover ==
    /\ pc = "discover"
    /\ LET left(i) == rglob(i) \ Range(discovered)
           live == {i \in ext_i..Len(exts) : left(i) # {}}
       IN  IF live # {}
           THEN LET i == CHOOSE x \in live : \A y \in live : x <= y
                IN  /\ \E p \in left(i) : discovered' = Append(discovered, p)
                    /\ ext_i' = i
                    /\ pc' = "hash"
           ELSE /\ pc' = main_next("from_generator")
                /\ UNCHANGED <<ext_i, discovered>>
    /\ UNCHANGED <<env, error, metadata, metadata_keys, used_hashes, hashed,
                   yielded, unique_q, file_path, key, midi_bytes, fullReads,
                   joined_q, row_q, table, rowSrc, log>>

\* The body of deduplicate_files' loop on the path just discovered.
\*   catches: compute_hash catches the exception of open and read
\*   adds:    the new hash is added to used_hashes
\*   after:   where control goes once the path is yielded
DedupStep(catches, adds, after) ==
    /\ pc = "hash"
    /\ LET p == Last(discovered)
           file_hash == compute_hash(p)
       IN  /\ hashed' = Append(hashed, p)
           /\ IF file_hash = NoHash
              THEN /\ log' = Append(log, [line |-> 44, path |-> p])
                   /\ IF catches
                      THEN pc' = "discover" /\ error' = error
                      ELSE Raise("OSError")
                   /\ UNCHANGED <<used_hashes, yielded, unique_q>>
              ELSE IF file_hash \in used_hashes
              THEN /\ pc' = "discover"
                   /\ UNCHANGED <<error, log, used_hashes, yielded, unique_q>>
              ELSE /\ used_hashes' =
                        IF adds THEN used_hashes \cup {file_hash} ELSE used_hashes
                   /\ yielded' = Append(yielded, p)
                   /\ unique_q' = Append(unique_q, p)
                   /\ pc' = after
                   /\ UNCHANGED <<error, log>>
    /\ UNCHANGED <<env, metadata, metadata_keys, ext_i, discovered, file_path,
                   key, midi_bytes, fullReads, joined_q, row_q, table, rowSrc>>

\* The loop body, were the exception of compute_hash not caught.
Hash_uncaught == DedupStep(FALSE, TRUE, "derive_key")

\* The loop body, were the hashes not added to used_hashes.
Hash_forgetful == DedupStep(TRUE, FALSE, "derive_key")

\* The loop body, were the unique paths collected in a list and not yielded
\* one at a time.
Hash_eager == DedupStep(TRUE, TRUE, "discover")

\* deduplicate_files, lines 55-59, with compute_hash
Hash == DedupStep(TRUE, TRUE, "derive_key")

\* grab_metadata, lines 65-74, on the path deduplicate_files has yielded.
\*   checks: the key is looked up in metadata (line 72)
JoinKeyStep(checks) ==
    /\ pc = "derive_key"
    /\ LET p == Head(unique_q)
           k == record_key(p)
       IN  /\ unique_q' = Tail(unique_q)
           /\ file_path' = <<p>>
           /\ key' = k
           /\ IF k = <<>>
              THEN /\ log' = Append(log, [line |-> 69, path |-> p])
                   /\ pc' = "discover"
              ELSE IF checks /\ k \notin DOMAIN metadata
              THEN /\ log' = Append(log, [line |-> 73, path |-> p])
                   /\ pc' = "discover"
              ELSE /\ log' = log
                   /\ pc' = "read_bytes"
    /\ UNCHANGED <<env, error, metadata, metadata_keys, ext_i, discovered,
                   used_hashes, hashed, yielded, midi_bytes, fullReads,
                   joined_q, row_q, table, rowSrc>>

\* Lines 65-74, were the key not looked up before the file is read.
DeriveKey_unchecked == JoinKeyStep(FALSE)

DeriveKey == JoinKeyStep(TRUE)

\* grab_metadata, lines 76-80
ReadBytes ==
    /\ pc = "read_bytes"
    /\ LET p == file_path[1]
       IN  /\ fullReads' = Append(fullReads, p)
           /\ IF fs[p].mode # "ok"
              THEN /\ log' = Append(log, [line |-> 79, path |-> p])
                   /\ midi_bytes' = midi_bytes
                   /\ pc' = "discover"
              ELSE /\ midi_bytes' = <<fs[p].content>>
                   /\ log' = log
                   /\ pc' = "merge"
    /\ UNCHANGED <<env, error, metadata, metadata_keys, ext_i, discovered,
                   used_hashes, hashed, yielded, unique_q, file_path, key,
                   joined_q, row_q, table, rowSrc>>

\* grab_metadata, lines 82-89
Merge ==
    /\ pc = "merge"
    /\ IF merge_raises(key)
       THEN /\ log' = Append(log, [line |-> 88, path |-> file_path[1]])
            /\ joined_q' = joined_q
            /\ pc' = "discover"
       ELSE /\ joined_q' = Append(joined_q, merged(key, midi_bytes[1]))
            /\ log' = log
            /\ pc' = "project"
    /\ UNCHANGED <<env, error, metadata, metadata_keys, ext_i, discovered,
                   used_hashes, hashed, yielded, unique_q, file_path, key,
                   midi_bytes, fullReads, row_q, table, rowSrc>>

\* row_generator, lines 100-101
ProjectRow ==
    /\ pc = "project"
    /\ row_q' = Append(row_q, project(Head(joined_q), metadata_keys))
    /\ joined_q' = Tail(joined_q)
    /\ pc' = "append"
    /\ UNCHANGED <<env, error, metadata, metadata_keys, ext_i, discovered,
                   used_hashes, hashed, yielded, unique_q, file_path, key,
                   midi_bytes, fullReads, table, rowSrc, log>>

\* A row count for a builder that stops at a limit.
RowLimit == 1

\* Dataset.from_generator takes the row and asks for the next one.
\*   limited: it stops asking once RowLimit rows are in the table
BuilderStep(limited) ==
    /\ pc = "append"
    /\ table' = Append(table, Head(row_q))
    /\ rowSrc' = Append(rowSrc, file_path[1])
    /\ row_q' = Tail(row_q)
    /\ pc' = IF limited /\ Len(table) + 1 >= RowLimit
             THEN main_next("from_generator")
             ELSE "discover"
    /\ UNCHANGED <<env, error, metadata, metadata_keys, ext_i, discovered,
                   used_hashes, hashed, yielded, unique_q, file_path, key,
                   midi_bytes, fullReads, joined_q, log>>

\* The builder, were it to stop at RowLimit rows.
AppendRow_limited == BuilderStep(TRUE)

\* main, lines 139-146
AppendRow == BuilderStep(FALSE)

\* main, lines 148-152
Save ==
    /\ pc = "save"
    /\ pc' = main_next("save")
    /\ UNCHANGED <<env, pipeline, error, metadata, metadata_keys>>

\* main, lines 154-156
Push ==
    /\ pc = "push"
    /\ pc' = main_next("push")
    /\ UNCHANGED <<env, pipeline, error, metadata, metadata_keys>>

\* The script is run again on the same directory and the same metadata.json.
Rerun ==
    /\ pc = "done"
    /\ run = 1
    /\ run' = 2
    /\ prev_table' = table
    /\ prev_discovered' = discovered
    /\ pc' = "check_exists"
    /\ metadata' = <<>>
    /\ metadata_keys' = {}
    /\ ext_i' = 1
    /\ discovered' = <<>>
    /\ hashed' = <<>>
    /\ yielded' = <<>>
    /\ unique_q' = <<>>
    /\ file_path' = <<>>
    /\ key' = <<>>
    /\ midi_bytes' = <<>>
    /\ fullReads' = <<>>
    /\ joined_q' = <<>>
    /\ row_q' = <<>>
    /\ table' = <<>>
    /\ rowSrc' = <<>>
    /\ log' = <<>>
    /\ UNCHANGED <<base, token, metadata_file, fs, error, used_hashes>>

Next ==
    \/ CheckExists
    \/ CheckIsDir
    \/ Login
    \/ LoadMetadata
    \/ ComputeKeys
    \/ FromGenerator
    \/ Discover
    \/ Hash
    \/ DeriveKey
    \/ ReadBytes
    \/ Merge
    \/ ProjectRow
    \/ AppendRow
    \/ Save
    \/ Push

Spec == Init /\ [][Next]_vars

NextTwoRuns == Next \/ Rerun

SpecTwoRuns == Init /\ [][NextTwoRuns]_vars

(***************************************************************************)
(* What the properties speak of.                                           *)
(***************************************************************************)
\* The first CHUNK_SIZE bytes of the file at path p.
Prefix(p) == ReadPrefix(fs[p].content, CHUNK_SIZE)

\* The fingerprint of the file at path p.
Fingerprint(p) == md5(Prefix(p))

\* Whether the file at path p can be opened and its first bytes read.
Hashable(p) == fs[p].mode # "noopen"

\* The paths find_midi_files is to yield.
MidiFiles == {p \in DOMAIN fs : \E i \in 1..Len(exts) : EndsWith(p.name, exts[i])}

\* The elements of seq at the indices in I, in their order.
RECURSIVE SubSeqAt(_, _, _)
SubSeqAt(seq, I, i) ==
    IF i > Len(seq) THEN <<>>
    ELSE (IF i \in I THEN <<seq[i]>> ELSE <<>>) \o SubSeqAt(seq, I, i + 1)

\* The first occurrence in seq of each value of F among the hashable paths.
FirstOccurrences(seq, F(_)) ==
    SubSeqAt(seq,
             {i \in 1..Len(seq) :
                /\ Hashable(seq[i])
                /\ \A j \in 1..(i - 1) : Hashable(seq[j]) => F(seq[j]) # F(seq[i])},
             1)

\* metadata.json as a mapping, empty when the file is absent.
MetaOnDisk == IF metadata_file = <<>> THEN <<>> ELSE metadata_file[1]

\* The union of the nested metadata keys of all records, and the two
\* attributes the join adds.
SchemaKeySet ==
    UNION {DOMAIN MetaOnDisk[k]["metadata"] : k \in DOMAIN MetaOnDisk}
        \cup {"audio_scores", "file"}

\* Paths a warning or an error was logged for, by the line of the call.
Skipped == Logged(69) \cup Logged(73)
Failed == Logged(44) \cup Logged(79) \cup Logged(88)

GeneratorPcs ==
    {"discover", "hash", "derive_key", "read_bytes", "merge", "project", "append"}
FinishedPcs == {"save", "push", "done"}

NothingProcessed ==
    /\ discovered = <<>>
    /\ hashed = <<>>
    /\ yielded = <<>>
    /\ fullReads = <<>>
    /\ joined_q = <<>>
    /\ row_q = <<>>
    /\ table = <<>>

C2_Rectangular ==
    /\ [](/\ \A i \in 1..Len(row_q) : DOMAIN row_q[i] = SchemaKeySet
          /\ \A i \in 1..Len(table) :
                /\ DOMAIN table[i] = SchemaKeySet
                /\ \A a \in SchemaKeySet \ {"audio_scores", "file"} :
                      a \notin DOMAIN MetaOnDisk[record_key(rowSrc[i])]["metadata"]
                          => table[i][a] = None)
    /\ [][(pc \in GeneratorPcs => metadata_keys' = metadata_keys)]_vars

\* Two rows of records with other attribute sets are in the table, and one of
\* them has None for an attribute that only a record without a file has.
C2_Witness ==
    /\ pc = "done"
    /\ Len(table) = 2
    /\ DOMAIN MetaOnDisk[record_key(rowSrc[1])]["metadata"]
          # DOMAIN MetaOnDisk[record_key(rowSrc[2])]["metadata"]
    /\ table[1]["year"] = None
    /\ K_7 \notin {record_key(p) : p \in DOMAIN fs}

(***************************************************************************)
(* C3  files without a record                                              *)
(***************************************************************************)
\* Whether the key derived from path p is empty or no key of metadata.json.
NoRecord(p) == record_key(p) = <<>> \/ record_key(p) \notin DOMAIN MetaOnDisk

\* C3: a file whose derived key is empty or is no key of the metadata mapping
\* never gives a row, grab_metadata does not read its bytes, the run goes on
\* with the next path and ends with every path processed.
C3_NoRecordNoRow ==
    /\ \A p \in DOMAIN fs :
          NoRecord(p)
              => /\ p \notin Range(rowSrc)
                 /\ p \notin Range(fullReads)
                 /\ (file_path = <<p>>
                        => pc \notin {"read_bytes", "merge", "project", "append"})
    /\ (Skipped # {} => pc # "aborted")
    /\ (pc \in FinishedPcs => Range(hashed) = MidiFiles)

\* A file whose key has no record was passed to grab_metadata before a file
\* that gave a row, and the run is over.
C3_Witness ==
    /\ pc = "done"
    /\ Len(yielded) = 2
    /\ record_key(yielded[1]) # <<>>
    /\ record_key(yielded[1]) \notin DOMAIN MetaOnDisk
    /\ yielded[1] \in Logged(73)
    /\ rowSrc = <<yielded[2]>>

(***************************************************************************)
(* C4  the key of a file name                                              *)
(***************************************************************************)
Digits == {"0", "1", "2", "3", "4", "5", "6", "7", "8", "9"}

StartsWithNonDigit(name) ==
    name # <<>> /\ Head(name) \notin Digits /\ Head(name) # "_"

IsFirstSegment(seg, name) ==
    /\ Len(seg) <= Len(name)
    /\ seg = SubSeq(name, 1, Len(seg))
    /\ "_" \notin Range(seg)
    /\ (Len(seg) = Len(name) \/ name[Len(seg) + 1] = "_")

\* Whether k is seg without its leading "0" characters.
IsZeroStripped(k, seg) ==
    /\ Len(k) <= Len(seg)
    /\ k = SubSeq(seg, Len(seg) - Len(k) + 1, Len(seg))
    /\ \A i \in 1..(Len(seg) - Len(k)) : seg[i] = "0"
    /\ (k = <<>> \/ k[1] # "0")

\* Whether k is the key of the file name: the text before the first
\* underscore, digits or not, without its leading zeros.
IsKeyOf(k, name) ==
    \E n \in 0..Len(name) :
        IsFirstSegment(SubSeq(name, 1, n), name) /\ IsZeroStripped(k, SubSeq(name, 1, n))

AllReadable == \A p \in MidiFiles : fs[p].mode = "ok"

\* Whether path p has a non-empty key and metadata.json a record for it.
KeyPresent(p) == record_key(p) # <<>> /\ record_key(p) \in DOMAIN MetaOnDisk

\* Whether path p has a non-empty key, a record for it, and the record has
\* "audio_scores".
Joinable(p) ==
    /\ record_key(p) # <<>>
    /\ record_key(p) \in DOMAIN MetaOnDisk
    /\ "audio_scores" \in DOMAIN MetaOnDisk[record_key(p)]

\* C5 as stated: when all files are readable, the table has one row for each
\* first occurrence of a fingerprint whose derived key is a key of the
\* metadata mapping.
C5_RowPerKeyPresent ==
    (pc = "done" /\ AllReadable)
        => rowSrc = SelectSeq(FirstOccurrences(discovered, Fingerprint), KeyPresent)

\* C5 (amended): when all files are readable, the table has one row for each
\* first occurrence of a fingerprint whose derived key is non-empty and a key
\* of the metadata mapping and whose record has "audio_scores": content is
\* deduplicated before the join, keys are not deduplicated.
C5_RowPerJoinable ==
    (pc = "done" /\ AllReadable)
        => /\ rowSrc = SelectSeq(FirstOccurrences(discovered, Fingerprint), Joinable)
           /\ Len(table) = Len(rowSrc)

\* Two readable files with the same content, other names and keys of two
\* records: one row.
C5_Witness ==
    /\ pc = "done"
    /\ AllReadable
    /\ Len(discovered) = 2
    /\ fs[discovered[1]].content = fs[discovered[2]].content
    /\ Joinable(discovered[1]) /\ Joinable(discovered[2])
    /\ record_key(discovered[1]) # record_key(discovered[2])
    /\ Len(table) = 1

(***************************************************************************)
(* C6  two runs                                                            *)
(***************************************************************************)
Count(seq, x) == Cardinality({i \in 1..Len(seq) : seq[i] = x})

SameRows(s, t) ==
    /\ Len(s) = Len(t)
    /\ \A i \in 1..Len(s) : Count(s, s[i]) = Count(t, s[i])

NoSharedFingerprint ==
    \A p, q \in MidiFiles :
        (p # q /\ Hashable(p) /\ Hashable(q)) => Fingerprint(p) # Fingerprint(q)

\* C6 as stated: the second run over the unchanged directory and metadata
\* gives the rows of the first, as a multiset, whatever the two traversal
\* orders.
C6_SameRowsAnyOrder ==
    (run = 2 /\ pc = "done") => SameRows(table, prev_table)

\* C6 (amended): the second run over the unchanged directory and metadata
\* gives the rows of the first, as a multiset, when the two runs traverse in
\* the same order, or, whatever the two orders, when no two files that can be
\* hashed have the same fingerprint.
C6_SameRowsSameOrderOrNoDuplicate ==
    (run = 2 /\ pc = "done" /\ (discovered = prev_discovered \/ NoSharedFingerprint))
        => SameRows(table, prev_table)

\* A second run in another order than the first, two rows in each.
C6_Witness ==
    /\ run = 2
    /\ pc = "done"
    /\ discovered # prev_discovered
    /\ NoSharedFingerprint
    /\ Len(table) = 2
    /\ table[1] = prev_table[2]

(***************************************************************************)
(* C7  fatal preconditions                                                 *)
(***************************************************************************)
\* C7: a run that a precondition failure ends (no root directory, root not a
\* directory, no credential, no metadata.json) has discovered, hashed and read
\* no file and emitted no row, and no precondition is checked after a file has
\* been processed.
C7_AbortBeforeProcessing ==
    /\ pc = "aborted" => NothingProcessed
    /\ pc \in {"check_exists", "check_isdir", "login", "load_metadata", "compute_keys"}
          => NothingProcessed

\* The credential is missing, the directory holds a file that has a record in
\* metadata.json, and the run is aborted.
C7_Witness ==
    /\ pc = "aborted"
    /\ error = "ValueError"
    /\ \E p \in MidiFiles : fs[p].mode = "ok" /\ Joinable(p)

(***************************************************************************)
(* C8  errors on one file                                                  *)
(***************************************************************************)
\* The rows a finished run is to have: one for each first occurrence of a
\* fingerprint that has a non-empty key with a full record and can be read
\* whole.
ExpectedRow(p) == Joinable(p) /\ fs[p].mode = "ok"

C9_StopsAtLimit ==
    /\ Len(table) <= RowLimit
    /\ Len(table) >= RowLimit => pc \notin GeneratorPcs \ {"discover"}

\* C9 (amended): the table builder takes no row-count limit: it asks for rows
\* until the joiner is exhausted, so a finished run has discovered and hashed
\* every file and its table holds every row the joiner yielded, however many.
C9_ConsumesAll ==
    pc \in FinishedPcs
        => /\ MidiFiles \subseteq Range(discovered)
           /\ hashed = discovered
           /\ Len(table) = Len(yielded) - Cardinality(Skipped \cup Logged(79) \cup Logged(88))
           /\ joined_q = <<>> /\ row_q = <<>>
           /\ error = ""

\* A finished run with more rows than RowLimit.
C9_Witness ==
    /\ pc = "done"
    /\ Len(table) > RowLimit

(***************************************************************************)
(* C10  laziness                                                           *)
(***************************************************************************)
\* The paths deduplicate_files has yielded that grab_metadata is done with:
\* skipped, failed, or their row appended to the table.
Settled == Skipped \cup Logged(79) \cup Logged(88) \cup Range(rowSrc)

\* C10: the stages advance on demand: while a path is discovered or hashed,
\* every path yielded before has been skipped or its row handed to the table
\* builder; a file's bytes are read only when all earlier yielded paths are in
\* that state; and at most one path, and at most one file's content, is in
\* flight between the stages.
C10_PullBased ==
    /\ Len(unique_q) <= 1
    /\ Len(joined_q) + Len(row_q) <= 1
    /\ pc \in {"discover", "hash"}
          => /\ unique_q = <<>> /\ joined_q = <<>> /\ row_q = <<>>
             /\ Range(yielded) \subseteq Settled
    /\ pc \in {"derive_key", "read_bytes", "merge", "project", "append"}
          => /\ yielded # <<>>
             /\ Range(yielded) \ {Last(yielded)} \subseteq Settled
             /\ Last(yielded) \notin Settled
             /\ hashed = discovered
             /\ Last(hashed) = Last(yielded)

\* The second path is being hashed and the row of the first is in the table.
C10_Witness ==
    /\ pc = "hash"
    /\ Len(discovered) = 2
    /\ hashed = <<discovered[1]>>
    /\ rowSrc = <<discovered[1]>>
    /\ Len(table) = 1

====
